---- MODULE Spec2Model ----
(***************************************************************************)
(* Request routing and the multi-agent pipeline of AgentOrchestrator       *)
(* (src/agents/agent_orchestrator.py), with the three agents it calls and  *)
(* the model manager behind them.                                          *)
(*                                                                         *)
(* Python values that the code inspects dynamically are records            *)
(* [type, value]: a str is [type |-> "str", value |-> <<characters>>], a   *)
(* list is [type |-> "list", value |-> <<items>>], None is                 *)
(* [type |-> "NoneType", value |-> <<>>].  A dict is a sequence of         *)
(* <<key, value>> pairs in insertion order (Python dicts keep it).         *)
(*                                                                         *)
(* The entry's "timestamp" (the event loop's clock, line 103) is left out: *)
(* nothing reads it.                                                       *)
(***************************************************************************)
EXTENDS Integers, Sequences, FiniteSets, TLC

\* ------------------------------------------------------------------ bounds
\* concurrent process_user_request calls (asyncio tasks on one orchestrator)
NumTasks == 2
\* process_user_request calls started over a run (caps the store's length)
MaxCalls == 2
\* the same cap for the runs of one caller with the Router's inputs
MaxRouterCalls == 2
\* the same cap for the runs of one caller that also reads the history
MaxSeqCalls == 3
\* the same cap for the runs of one caller of all four public operations
MaxPublicCalls == 2
\* the same cap for the runs that try every way the model loads can fare
MaxInitCalls == 2
\* words in a generated request text
MaxWords == 2

\* ------------------------------------------------------------ Python values
None == [type |-> "NoneType", value |-> <<>>]
Str(chars) == [type |-> "str", value |-> chars]
List(items) == [type |-> "list", value |-> items]

\* the test `selected_agents is None` in place of `not selected_agents`
Falsy_OnlyNone(v) == v.type = "NoneType"

\* `not v`: None, "" and [] are falsy
Falsy(v) == v.type = "NoneType" \/ v.value = <<>>

\* x in list
InList(x, l) == \E i \in 1..Len(l) : l[i] = x

\* needle in haystack, for str: substring containment
Contains(haystack, needle) ==
    \E i \in 1..(Len(haystack) - Len(needle) + 1) :
        SubSeq(haystack, i, i + Len(needle) - 1) = needle

UpperCase == <<"A","B","C","D","E","F","G","H","I","J","K","L","M",
               "N","O","P","Q","R","S","T","U","V","W","X","Y","Z">>
LowerCase == <<"a","b","c","d","e","f","g","h","i","j","k","l","m",
               "n","o","p","q","r","s","t","u","v","w","x","y","z">>

LowerChar(c) ==
    IF \E i \in 1..26 : UpperCase[i] = c
    THEN LowerCase[CHOOSE i \in 1..26 : UpperCase[i] = c]
    ELSE c

\* str.lower()
Lower(chars) == [i \in 1..Len(chars) |-> LowerChar(chars[i])]

\* dict operations on <<key, value>> sequences
DictHas(d, k) == \E i \in 1..Len(d) : d[i][1] = k
DictGet(d, k, default) ==
    IF DictHas(d, k) THEN d[CHOOSE i \in 1..Len(d) : d[i][1] = k][2] ELSE default
DictSet(d, k, v) ==
    IF DictHas(d, k)
    THEN [i \in 1..Len(d) |-> IF d[i][1] = k THEN <<k, v>> ELSE d[i]]
    ELSE Append(d, <<k, v>>)
DictKeys(d) == [i \in 1..Len(d) |-> d[i][1]]

\* ------------------------------------------------------------- model manager
ModelTypes == {"phi3", "mistral", "qwen"}

\* what one call of a loaded text-generation pipeline can do: return text,
\* return text that holds six consecutive backticks, or raise
PlainText == "generated text"
FencedText == "generated text with six backticks in a row"
PipeOutcomes == {PlainText, FencedText, "raise"}

\* SimpleModelManager.generate_response: always returns a str
GenerateResponse(pl, model_type, pipe) ==
    IF model_type \notin pl
    THEN "Model " \o model_type \o " not available"
    ELSE IF pipe = "raise" THEN "Error: pipeline failed" ELSE pipe

\* ------------------------------------------------------------------ agents
\* WebSearchManager.async_search, awaited by conduct_research: the call
\* suspends the task; it later returns a result list or raises
SearchOutcomes ==
    { [raised |-> TRUE,  results |-> <<>>],
      [raised |-> FALSE, results |-> <<>>],
      [raised |-> FALSE, results |-> <<"source 1">>] }

\* ResearchAgent.conduct_research, from the return of async_search on
ConductResearch(query, search, pl, pipe) ==
    IF search.raised
    THEN [agent |-> "ResearchAgent", query |-> query,
          error |-> "search failed", status |-> "failed"]
    ELSE [agent |-> "ResearchAgent", query |-> query,
          research_report |-> GenerateResponse(pl, "phi3", pipe),
          sources |-> search.results,
          source_count |-> Len(search.results),
          status |-> "completed"]

\* DocumentationAgent._format_final_document: title, content, source list
FormatFinalDocument(content, sources) ==
    [title |-> "# Research Report", content |-> content, sources |-> sources]

\* the sources create_documentation extracts from its input
DocSources(research_data) ==
    IF "research_report" \in DOMAIN research_data /\ "sources" \in DOMAIN research_data
    THEN research_data.sources
    ELSE <<>>

\* DocumentationAgent.create_documentation
CreateDocumentation(research_data, pl, pipe) ==
    [agent |-> "DocumentationAgent",
     document_type |-> "research_report",
     documentation |->
        FormatFinalDocument(GenerateResponse(pl, "mistral", pipe), DocSources(research_data)),
     source_research |->
        IF "query" \in DOMAIN research_data THEN research_data.query ELSE Str(<<>>),
     sources_used |-> Len(DocSources(research_data)),
     status |-> "completed"]

\* CodingAgent._extract_code_blocks: findall of the six-backtick pattern yields plain
\* strings, and unpacking one of them into (language, code) raises ValueError
ExtractCodeBlocksRaises(response) == response = FencedText

\* CodingAgent.generate_code
GenerateCode(task, pl, pipe) ==
    LET code_response == GenerateResponse(pl, "qwen", pipe) IN
    IF ExtractCodeBlocksRaises(code_response)
    THEN [agent |-> "CodingAgent", task |-> task,
          error |-> "not enough values to unpack", status |-> "failed"]
    ELSE [agent |-> "CodingAgent", task |-> task, language |-> "python",
          code_blocks |-> <<>>, explanation |-> code_response,
          full_response |-> code_response, requirements |-> "",
          status |-> "completed"]

\* ------------------------------------------------------------------ router
research_keywords == <<
    <<"r","e","s","e","a","r","c","h">>,
    <<"f","i","n","d">>,
    <<"s","e","a","r","c","h">>,
    <<"i","n","f","o","r","m","a","t","i","o","n">>,
    <<"a","n","a","l","y","z","e">>,
    <<"s","t","u","d","y">> >>
\* the documentation keywords without "write"
doc_keywords_NoWrite == <<
    <<"d","o","c","u","m","e","n","t">>,
    <<"r","e","p","o","r","t">>,
    <<"s","u","m","m","a","r","y">>,
    <<"d","o","c","u","m","e","n","t","a","t","i","o","n">> >>
doc_keywords == <<
    <<"d","o","c","u","m","e","n","t">>,
    <<"w","r","i","t","e">>,
    <<"r","e","p","o","r","t">>,
    <<"s","u","m","m","a","r","y">>,
    <<"d","o","c","u","m","e","n","t","a","t","i","o","n">> >>
code_keywords == <<
    <<"c","o","d","e">>,
    <<"p","r","o","g","r","a","m">>,
    <<"s","c","r","i","p","t">>,
    <<"f","u","n","c","t","i","o","n">>,
    <<"c","l","a","s","s">>,
    <<"a","l","g","o","r","i","t","h","m">>,
    <<"d","e","b","u","g">> >>
coding_indicators == <<
    <<"w","r","i","t","e"," ","c","o","d","e">>,
    <<"c","r","e","a","t","e"," ","f","u","n","c","t","i","o","n">>,
    <<"b","u","i","l","d"," ","s","c","r","i","p","t">>,
    <<"p","r","o","g","r","a","m">>,
    <<"a","l","g","o","r","i","t","h","m">>,
    <<"c","l","a","s","s">>,
    <<"m","e","t","h","o","d">>,
    <<"d","e","b","u","g">>,
    <<"f","i","x"," ","c","o","d","e">> >>

\* any(keyword in text for keyword in keywords)
AnyKeyword(keywords, text) ==
    \E k \in 1..Len(keywords) : Contains(text, keywords[k])

\* the router matching its keywords against the text as given, not lower-cased
DetermineAgentsNeeded_CaseSensitive(request) ==
    IF request.type # "str"
    THEN [raised |-> TRUE, value |-> None]
    ELSE
      LET r == IF AnyKeyword(research_keywords, request.value) THEN <<"research">> ELSE <<>>
          d == IF AnyKeyword(doc_keywords, request.value) THEN <<"documentation">> ELSE <<>>
          c == IF AnyKeyword(code_keywords, request.value) THEN <<"coding">> ELSE <<>>
          needed_agents == r \o d \o c
      IN [raised |-> FALSE,
          value |-> List(IF needed_agents = <<>> THEN <<"research">> ELSE needed_agents)]

\* the router without its default: an empty list when no keyword matches
DetermineAgentsNeeded_NoDefault(request) ==
    IF request.type # "str"
    THEN [raised |-> TRUE, value |-> None]
    ELSE
      LET request_lower == Lower(request.value)
          r == IF AnyKeyword(research_keywords, request_lower) THEN <<"research">> ELSE <<>>
          d == IF AnyKeyword(doc_keywords, request_lower) THEN <<"documentation">> ELSE <<>>
          c == IF AnyKeyword(code_keywords, request_lower) THEN <<"coding">> ELSE <<>>
      IN [raised |-> FALSE, value |-> List(r \o d \o c)]

\* AgentOrchestrator._determine_agents_needed; request.lower() raises
\* AttributeError when request is not a str
DetermineAgentsNeeded(request) ==
    IF request.type # "str"
    THEN [raised |-> TRUE, value |-> None]
    ELSE
      LET request_lower == Lower(request.value)
          r == IF AnyKeyword(research_keywords, request_lower) THEN <<"research">> ELSE <<>>
          d == IF AnyKeyword(doc_keywords, request_lower) THEN <<"documentation">> ELSE <<>>
          c == IF AnyKeyword(code_keywords, request_lower) THEN <<"coding">> ELSE <<>>
          needed_agents == r \o d \o c
      IN [raised |-> FALSE,
          value |-> List(IF needed_agents = <<>> THEN <<"research">> ELSE needed_agents)]

\* AgentOrchestrator._is_coding_request; raises like the router on a non-str
IsCodingRequest(request) ==
    IF request.type # "str"
    THEN [raised |-> TRUE, value |-> FALSE]
    ELSE [raised |-> FALSE,
          value |-> AnyKeyword(coding_indicators, Lower(request.value))]

\* ------------------------------------------------------------------- inputs
ReqHi == Str(<<"H","i">>)
ReqCode == Str(<<"C","o","d","e">>)
ReqDebug == Str(<<"d","e","b","u","g">>)
ReqMethod == Str(<<"m","e","t","h","o","d">>)
ReqFindReport == Str(<<"f","i","n","d"," ","r","e","p","o","r","t">>)
ReqAll == Str(<<"S","e","a","r","c","h",","," ","w","r","i","t","e"," ","c","o","d","e">>)
\* "Please write code for a function that debugs a sorting algorithm"
ReqSorting == Str(<<"P","l","e","a","s","e"," ","w","r","i","t","e"," ","c","o","d","e"," ","f","o","r"," ","a"," ","f","u","n","c","t","i","o","n"," ","t","h","a","t"," ","d","e","b","u","g","s"," ","a"," ","s","o","r","t","i","n","g"," ","a","l","g","o","r","i","t","h","m">>)

\* request arguments: texts, and None (the annotation str is not enforced)
Requests == {ReqHi, ReqCode, ReqDebug, ReqMethod, ReqFindReport, ReqAll, ReqSorting, None}

\* request texts of one to MaxWords words, a blank between two words
Words == {<<"f","i","n","d">>,
          <<"S","e","a","r","c","h">>,
          <<"w","r","i","t","e">>,
          <<"c","o","d","e">>,
          <<"d","o","c","u","m","e","n","t","a","t","i","o","n">>,
          <<"h","i">>}
RECURSIVE TextsOf(_)
TextsOf(n) ==
    IF n = 1 THEN Words
    ELSE {t \o <<" ">> \o w : t \in TextsOf(n - 1), w \in Words}
TextRequests == {Str(t) : t \in UNION {TextsOf(n) : n \in 1..MaxWords}}

\* models_to_load, by model type; what load_model does for each candidate
models_to_load == <<"phi3", "mistral", "qwen">>
LoadOutcomes == {"loaded", "false", "raised"}

\* limit arguments of get_conversation_history
Limits == -1..3

\* -------------------------------------------------------------------- state
VARIABLES
    pipelines,             \* SimpleModelManager.pipelines: the loaded model types
    agents,                \* AgentOrchestrator.agents: the registered names
    conversation_history,  \* AgentOrchestrator.conversation_history
    tasks,                 \* per task: the locals of its process_user_request call
    calls,                 \* process_user_request calls started so far
    init_ret,              \* what the last initialize_agents call returned
    history_ret,           \* the last get_conversation_history call: limit, value
    load_log,              \* the load_model calls of the last initialize_agents call
    status_ret             \* what the last get_agent_status call returned

vars == <<pipelines, agents, conversation_history, tasks, calls, init_ret, history_ret,
          load_log, status_ret>>

Tasks == 1..NumTasks

\* a task before its first call
IdleTask ==
    [pc |-> "idle", request |-> None, given |-> None, selected_agents |-> None,
     conversation_id |-> 0, results |-> <<>>, research_data |-> <<>>,
     started |-> <<>>, invoked |-> <<>>, raised |-> {}, stage |-> 0,
     exc |-> "", ret |-> <<>>]

Init ==
    /\ pipelines = {}
    /\ agents = {}
    /\ conversation_history = <<>>
    /\ tasks = [t \in Tasks |-> IdleTask]
    /\ calls = 0
    /\ init_ret = "not called"
    /\ history_ret = <<>>
    /\ load_log = <<>>
    /\ status_ret = <<>>

\* ---------------------------------------------------------- pipeline stages
\* the record a stage's except clause stores
FailureRecord(e) == [error |-> e, status |-> "failed"]

\* a stage with no except clause of its own: the exception leaves the pipeline
CatchStage_Propagates(loc, key, e) ==
    [loc EXCEPT !.exc = e, !.raised = @ \cup {key}]

\* except Exception as e: results[key] = {"error": str(e), "status": "failed"}
CatchStage(loc, key, e) ==
    [loc EXCEPT !.results = DictSet(@, key, FailureRecord(e)),
                !.raised = @ \cup {key}]

\* the registry lookup made before the try of the research stage
EnterResearch_LookupOutsideTry(loc, ag) ==
    LET l == [loc EXCEPT !.started = Append(@, "research")] IN
    IF "research" \notin ag
    THEN [l EXCEPT !.exc = "KeyError: research", !.raised = @ \cup {"research"}]
    ELSE [l EXCEPT !.pc = "research_await", !.invoked = Append(@, "research")]

\* lines 71-77 up to the await: self.agents["research"] raises KeyError on an
\* empty registry; otherwise conduct_research starts and suspends in its search
EnterResearch(loc, ag) ==
    LET l == [loc EXCEPT !.started = Append(@, "research")] IN
    IF "research" \notin ag
    THEN CatchStage(l, "research", "KeyError: research")
    ELSE [l EXCEPT !.pc = "research_await", !.invoked = Append(@, "research")]

\* the request text wrapped whenever research left no report
ResearchData_WrapsOnFailure(loc) ==
    IF DictHas(loc.results, "research")
       /\ "research_report" \in DOMAIN DictGet(loc.results, "research", <<>>)
    THEN DictGet(loc.results, "research", <<>>)
    ELSE [research_report |-> loc.request]

\* the request text wrapped always, whatever research produced
ResearchData_AlwaysWraps(loc) == [research_report |-> loc.request]

\* line 81: results.get("research", {"research_report": request})
ResearchData(loc) ==
    DictGet(loc.results, "research", [research_report |-> loc.request])

\* lines 79-86
DocumentationStage(loc, ag, pl, pipe) ==
    LET l == [loc EXCEPT !.started = Append(@, "documentation"),
                         !.research_data = <<ResearchData(loc)>>] IN
    IF "documentation" \notin ag
    THEN CatchStage(l, "documentation", "KeyError: documentation")
    ELSE [l EXCEPT !.invoked = Append(@, "documentation"),
                   !.results = DictSet(@, "documentation",
                                       CreateDocumentation(ResearchData(loc), pl, pipe["mistral"]))]

\* the coding stage without the _is_coding_request test
CodingStage_Ungated(loc, ag, pl, pipe) ==
    LET l == [loc EXCEPT !.started = Append(@, "coding")] IN
    IF "coding" \notin ag
    THEN CatchStage(l, "coding", "KeyError: coding")
    ELSE [l EXCEPT !.invoked = Append(@, "coding"),
                   !.results = DictSet(@, "coding",
                                       GenerateCode(loc.request, pl, pipe["qwen"]))]

\* lines 88-95
CodingStage(loc, ag, pl, pipe) ==
    LET l == [loc EXCEPT !.started = Append(@, "coding")]
        gate == IsCodingRequest(loc.request) IN
    IF gate.raised
    THEN CatchStage(l, "coding", "AttributeError: lower")
    ELSE IF ~gate.value
    THEN l
    ELSE IF "coding" \notin ag
    THEN CatchStage(l, "coding", "KeyError: coding")
    ELSE [l EXCEPT !.invoked = Append(@, "coding"),
                   !.results = DictSet(@, "coding",
                                       GenerateCode(loc.request, pl, pipe["qwen"]))]

\* the if-blocks in the opposite order
STAGES_Reversed == <<"coding", "documentation", "research">>

\* the order of the three if-blocks of lines 70-95
STAGES == <<"research", "documentation", "coding">>

\* run the if-blocks from the i-th on, until the research await or the end
RECURSIVE RunFrom(_, _, _, _, _)
RunFrom(i, loc, ag, pl, pipe) ==
    IF loc.exc # "" THEN loc
    ELSE IF i > Len(STAGES) THEN [loc EXCEPT !.pc = "store"]
    ELSE IF ~InList(STAGES[i], loc.selected_agents.value)
    THEN RunFrom(i + 1, loc, ag, pl, pipe)
    ELSE IF STAGES[i] = "research"
    THEN LET l == EnterResearch(loc, ag) IN
         IF l.pc = "research_await"
         THEN [l EXCEPT !.stage = i]
         ELSE RunFrom(i + 1, l, ag, pl, pipe)
    ELSE IF STAGES[i] = "documentation"
    THEN RunFrom(i + 1, DocumentationStage(loc, ag, pl, pipe), ag, pl, pipe)
    ELSE RunFrom(i + 1, CodingStage(loc, ag, pl, pipe), ag, pl, pipe)

\* the id taken as the number of results of the run
ConversationEntry_IdFromResults(loc) ==
    [id |-> Len(loc.results), request |-> loc.request,
     selected_agents |-> loc.selected_agents, results |-> loc.results]

\* the id taken as the store's length after the append
ConversationEntry_IdAfterAppend(loc) ==
    [id |-> loc.conversation_id + 1, request |-> loc.request,
     selected_agents |-> loc.selected_agents, results |-> loc.results]

\* lines 98-104
ConversationEntry(loc) ==
    [id |-> loc.conversation_id, request |-> loc.request,
     selected_agents |-> loc.selected_agents, results |-> loc.results]

\* lines 107-112
CompletedReturn(loc) ==
    [conversation_id |-> loc.conversation_id, request |-> loc.request,
     results |-> loc.results, status |-> "completed"]

\* lines 114-120
FailedReturn(request, e) ==
    [request |-> request, error |-> e, status |-> "failed"]

\* a failed run stored like a completed one before it is reported
Settle_StoresFailedRun(t, loc) ==
    IF loc.pc = "research_await" /\ loc.exc = ""
    THEN /\ tasks' = [tasks EXCEPT ![t] = loc]
         /\ UNCHANGED conversation_history
    ELSE /\ conversation_history' = Append(conversation_history, ConversationEntry(loc))
         /\ tasks' = [tasks EXCEPT ![t] =
                [loc EXCEPT !.pc = "returned",
                            !.ret = IF loc.exc # ""
                                    THEN <<FailedReturn(loc.request, loc.exc)>>
                                    ELSE <<CompletedReturn(loc)>>]]

\* where a run segment leaves the task: suspended, failed at top level, or
\* stored and returned
Settle(t, loc) ==
    IF loc.exc # ""
    THEN /\ tasks' = [tasks EXCEPT ![t] =
                [loc EXCEPT !.pc = "returned", !.ret = <<FailedReturn(loc.request, loc.exc)>>]]
         /\ UNCHANGED conversation_history
    ELSE IF loc.pc = "research_await"
    THEN /\ tasks' = [tasks EXCEPT ![t] = loc]
         /\ UNCHANGED conversation_history
    ELSE /\ conversation_history' = Append(conversation_history, ConversationEntry(loc))
         /\ tasks' = [tasks EXCEPT ![t] =
                [loc EXCEPT !.pc = "returned", !.ret = <<CompletedReturn(loc)>>]]

\* line 62-63: the Router is asked when selected_agents is falsy
SelectAgents(request, selected) ==
    IF Falsy(selected)
    THEN DetermineAgentsNeeded(request)
    ELSE [raised |-> FALSE, value |-> selected]

\* ------------------------------------------------------------------ actions
\* process_user_request from its call to its first suspension or its return
ProcessUserRequest(t, request, selected, pipe) ==
    /\ tasks[t].pc \in {"idle", "returned"}
    /\ calls' = calls + 1
    /\ LET sel == SelectAgents(request, selected)
           loc0 == [IdleTask EXCEPT !.pc = "running", !.request = request,
                                    !.given = selected,
                                    !.selected_agents = sel.value,
                                    !.conversation_id = Len(conversation_history)]
       IN IF sel.raised
          THEN Settle(t, [loc0 EXCEPT !.exc = "AttributeError: lower"])
          ELSE Settle(t, RunFrom(1, loc0, agents, pipelines, pipe))
    /\ UNCHANGED <<pipelines, agents, init_ret, history_ret, load_log, status_ret>>

\* process_user_request from the return of the search to its return
ResumeResearch(t, search, pipe) ==
    /\ tasks[t].pc = "research_await"
    /\ LET loc == tasks[t]
           research_result == ConductResearch(loc.request, search, pipelines, pipe["phi3"])
           l == [loc EXCEPT !.pc = "running",
                            !.results = DictSet(@, "research", research_result)]
       IN Settle(t, RunFrom(loc.stage + 1, l, agents, pipelines, pipe))
    /\ UNCHANGED <<pipelines, agents, calls, init_ret, history_ret, load_log, status_ret>>

\* the loop over the candidates given up at the first load_model that raises
LoadAttempts_StopsAtRaise(outcome) ==
    LET n == Len(models_to_load)
        stop == IF \E j \in 1..n : outcome[j] = "raised"
                THEN (CHOOSE j \in 1..n :
                        outcome[j] = "raised" /\ \A k \in 1..(j - 1) : outcome[k] # "raised")
                ELSE n
    IN [i \in 1..stop |-> [model_type |-> models_to_load[i], success |-> outcome[i] = "loaded"]]

\* lines 31-39: one load_model call per candidate, in order; a candidate that
\* returns False or raises is logged and the loop goes on
LoadAttempts(outcome) ==
    [i \in 1..Len(models_to_load) |->
        [model_type |-> models_to_load[i], success |-> outcome[i] = "loaded"]]

\* initialize_agents: outcome[i] is what load_model does for candidate i
InitializeAgents(outcome) ==
    LET attempts == LoadAttempts(outcome)
        loaded == {attempts[i].model_type : i \in {j \in 1..Len(attempts) : attempts[j].success}}
        loaded_count == Cardinality({j \in 1..Len(attempts) : attempts[j].success})
    IN /\ pipelines' = pipelines \cup loaded
       /\ load_log' = attempts
       /\ IF loaded_count = 0
          THEN /\ init_ret' = "False"
               /\ UNCHANGED agents
          ELSE /\ init_ret' = "True"
               /\ agents' = {"research", "documentation", "coding"}
       /\ UNCHANGED <<conversation_history, tasks, calls, history_ret, status_ret>>

\* list[start:] with Python's handling of negative and out-of-range starts
SliceFrom(l, start) ==
    LET n == Len(l)
        s == IF start < 0
             THEN (IF start + n < 0 THEN 0 ELSE start + n)
             ELSE (IF start > n THEN n ELSE start)
    IN SubSeq(l, s + 1, n)

\* get_conversation_history: self.conversation_history[-limit:]
HistoryWindow(history, limit) == SliceFrom(history, 0 - limit)

GetConversationHistory(limit) ==
    /\ history_ret' = <<[limit |-> limit,
                         value |-> HistoryWindow(conversation_history, limit)]>>
    /\ UNCHANGED <<pipelines, agents, conversation_history, tasks, calls, init_ret,
                   load_log, status_ret>>

\* get_conversation_history with a limit that is no number: -limit raises
\* TypeError, and nothing in the method catches it
GetConversationHistoryNonInt(limit) ==
    /\ limit.type = "NoneType"
    /\ history_ret' = <<[limit |-> limit, exception |-> "TypeError: bad operand type for unary -"]>>
    /\ UNCHANGED <<pipelines, agents, conversation_history, tasks, calls, init_ret,
                   load_log, status_ret>>

\* the model manager's get_model_info: the loaded models
GetModelInfo(pl) == pl

\* conversation_count taken as the number of calls started
AgentStatus_CountsCalls(ag, pl, history) ==
    [agents |-> ag, model_info |-> GetModelInfo(pl),
     conversation_count |-> calls, active_agents |-> <<>>]

\* lines 158-163: the dict get_agent_status returns; active_agents is never
\* written after __init__
AgentStatus(ag, pl, history) ==
    [agents |-> ag, model_info |-> GetModelInfo(pl),
     conversation_count |-> Len(history), active_agents |-> <<>>]

\* get_agent_status
GetAgentStatus ==
    /\ status_ret' = <<AgentStatus(agents, pipelines, conversation_history)>>
    /\ UNCHANGED <<pipelines, agents, conversation_history, tasks, calls, init_ret,
                   history_ret, load_log>>

\* ---------------------------------------------------- the pipeline at large
\* Concurrent callers. The requests and explicit lists reach every stage, every
\* catch clause and the top-level except; every pipeline call returns plain
\* text, a search raises or finds a source, and the candidates of one
\* initialize_agents call fare alike.
PipelineRequests == {ReqDebug, None}
PipelineSelections ==
    { None,
      List(<<"documentation">>),
      List(<<"coding", "research">>),
      List(<<"research", "documentation", "coding">>) }
PlainPipes == {[m \in ModelTypes |-> PlainText]}
PipelineSearches == {s \in SearchOutcomes : s.raised \/ s.results # <<>>}
UniformLoads == {[i \in 1..Len(models_to_load) |-> o] : o \in LoadOutcomes}

Next ==
    \/ \E t \in Tasks, request \in PipelineRequests, selected \in PipelineSelections,
          pipe \in PlainPipes :
          /\ calls < MaxCalls
          /\ ProcessUserRequest(t, request, selected, pipe)
    \/ \E t \in Tasks, search \in PipelineSearches, pipe \in PlainPipes :
          ResumeResearch(t, search, pipe)
    \/ \E outcome \in UniformLoads : InitializeAgents(outcome)

Spec == Init /\ [][Next]_vars

\* ------------------------------------------------- one caller, routed requests
\* One caller that awaits each call before the next, with every request text
\* and the selections that leave the choice to the Router or force coding; the
\* pipeline calls of one segment answer alike, in each of the three ways.
NoTaskSuspended == \A t \in Tasks : tasks[t].pc # "research_await"
RouterSelections == {None, List(<<>>), List(<<"coding">>)}
FoundSources == {s \in SearchOutcomes : s.results # <<>>}
AllLoaded == {[i \in 1..Len(models_to_load) |-> "loaded"]}
UniformPipes == {[m \in ModelTypes |-> o] : o \in PipeOutcomes}

NextRouter ==
    \/ \E request \in Requests, selected \in RouterSelections, pipe \in UniformPipes :
          /\ calls < MaxRouterCalls
          /\ NoTaskSuspended
          /\ ProcessUserRequest(1, request, selected, pipe)
    \/ \E search \in FoundSources, pipe \in UniformPipes : ResumeResearch(1, search, pipe)
    \/ \E outcome \in AllLoaded : InitializeAgents(outcome)

SpecRouter == Init /\ [][NextRouter]_vars

\* ------------------------------------------- one caller, reading the history
SeqRequests == {ReqHi, None}
SeqSelections == {None, List(<<"documentation">>)}

NextSeq ==
    \/ \E request \in SeqRequests, selected \in SeqSelections, pipe \in PlainPipes :
          /\ calls < MaxSeqCalls
          /\ NoTaskSuspended
          /\ ProcessUserRequest(1, request, selected, pipe)
    \/ \E search \in FoundSources, pipe \in PlainPipes : ResumeResearch(1, search, pipe)
    \/ \E outcome \in AllLoaded : InitializeAgents(outcome)
    \/ \E limit \in Limits : GetConversationHistory(limit)

SpecSeq == Init /\ [][NextSeq]_vars

\* ------------------------------------- one caller, all four public operations
\* initialize_agents loading every candidate or none, requests that complete
\* and one that fails as a whole, both status queries, and a limit that is None.
PublicLoads == {o \in UniformLoads : o[1] # "raised"}
PublicLimits == {0, 1}

NextPublic ==
    \/ \E request \in SeqRequests, selected \in SeqSelections, pipe \in PlainPipes :
          /\ calls < MaxPublicCalls
          /\ NoTaskSuspended
          /\ ProcessUserRequest(1, request, selected, pipe)
    \/ \E search \in FoundSources, pipe \in PlainPipes : ResumeResearch(1, search, pipe)
    \/ \E outcome \in PublicLoads : InitializeAgents(outcome)
    \/ \E limit \in PublicLimits : GetConversationHistory(limit)
    \/ GetConversationHistoryNonInt(None)
    \/ GetAgentStatus

SpecPublic == Init /\ [][NextPublic]_vars

\* --------------------------------------------- one caller, every load outcome
\* Every way the three candidates of initialize_agents can fare, and requests
\* that reach each of the three agents.
LoadChoices == [1..Len(models_to_load) -> LoadOutcomes]
InitRequests == {ReqHi, ReqDebug}
InitSelections == {None, List(<<"documentation">>)}

NextInit ==
    \/ \E request \in InitRequests, selected \in InitSelections, pipe \in PlainPipes :
          /\ calls < MaxInitCalls
          /\ NoTaskSuspended
          /\ ProcessUserRequest(1, request, selected, pipe)
    \/ \E search \in FoundSources, pipe \in PlainPipes : ResumeResearch(1, search, pipe)
    \/ \E outcome \in LoadChoices : InitializeAgents(outcome)

SpecInit == Init /\ [][NextInit]_vars

\* ------------------------------------------- one call, generated request texts
\* A fresh orchestrator routes one generated text: keywords of each set in
\* either order, two keywords of one set, a capital letter, and no keyword.
TextSelections == {None, List(<<>>)}

NextText ==
    \/ \E request \in TextRequests, selected \in TextSelections, pipe \in PlainPipes :
          /\ tasks[1].pc = "idle"
          /\ ProcessUserRequest(1, request, selected, pipe)
    \/ \E search \in FoundSources, pipe \in PlainPipes : ResumeResearch(1, search, pipe)
    \/ \E outcome \in AllLoaded : InitializeAgents(outcome)

SpecText == Init /\ [][NextText]_vars

\* ------------------------------------------ one caller, no explicit selection
\* One caller leaves every selection to the Router and may repeat a request;
\* searches and pipeline calls answer in every way, differently each time.
NoSelection == {None}

NextTwice ==
    \/ \E request \in Requests, selected \in NoSelection, pipe \in UniformPipes :
          /\ calls < MaxRouterCalls
          /\ NoTaskSuspended
          /\ ProcessUserRequest(1, request, selected, pipe)
    \/ \E search \in SearchOutcomes, pipe \in UniformPipes : ResumeResearch(1, search, pipe)
    \/ \E outcome \in UniformLoads : InitializeAgents(outcome)

SpecTwice == Init /\ [][NextTwice]_vars

\* ================================================================== claims
PriorityOrder == <<"research", "documentation", "coding">>

\* s picks elements of p in p's order, each at most once
IsSubsequence(s, p) ==
    \E f \in [1..Len(s) -> 1..Len(p)] :
        /\ \A i \in 1..Len(s) : s[i] = p[f[i]]
        /\ \A i, j \in 1..Len(s) : i < j => f[i] < f[j]

Min(a, b) == IF a < b THEN a ELSE b

Returned(t) == tasks[t].pc = "returned"
Completed(t) == Returned(t) /\ tasks[t].ret[1].status = "completed"
Failed(t) == Returned(t) /\ tasks[t].ret[1].status = "failed"
Selected(t, name) == InList(name, tasks[t].selected_agents.value)
IsFailureRecord(r) == DOMAIN r = {"error", "status"} /\ r.status = "failed"

\* C1: an exception raised by a selected capability's invocation is caught at
\* its stage and stored as {error, status: "failed"} under that capability's
\* key; the later selected stages still run and the run returns "completed".
C1_FailureIsolated ==
    \A t \in Tasks :
        tasks[t].raised # {} =>
            /\ tasks[t].exc = ""
            /\ \A k \in tasks[t].raised :
                  /\ DictHas(tasks[t].results, k)
                  /\ IsFailureRecord(DictGet(tasks[t].results, k, <<>>))
            /\ Returned(t) =>
                  /\ Completed(t)
                  /\ \A i \in 1..Len(PriorityOrder) :
                        Selected(t, PriorityOrder[i]) => InList(PriorityOrder[i], tasks[t].started)

\* all three stages raised in one run, and the run completed
C1_Witness ==
    \E t \in Tasks :
        /\ Completed(t)
        /\ tasks[t].raised = {"research", "documentation", "coding"}
        /\ DictKeys(tasks[t].ret[1].results) = PriorityOrder

\* C2: the stages run one after another in the order research, documentation,
\* coding whatever the order of the selected list: the stages entered and the
\* keys of results are subsequences of that order, every stage before the last
\* one entered has its outcome stored, and nothing else is entered while the
\* research call is pending.
C2_StagesInOrder ==
    \A t \in Tasks :
        /\ IsSubsequence(tasks[t].started, PriorityOrder)
        /\ IsSubsequence(DictKeys(tasks[t].results), PriorityOrder)
        /\ \A i \in 1..(Len(tasks[t].started) - 1) :
              DictHas(tasks[t].results, tasks[t].started[i])
        /\ tasks[t].pc = "research_await" =>
              /\ tasks[t].started[Len(tasks[t].started)] = "research"
              /\ ~DictHas(tasks[t].results, "research")

\* a list given as (coding, research) ran research first
C2_Witness ==
    \E t \in Tasks :
        /\ Completed(t)
        /\ tasks[t].selected_agents = List(<<"coding", "research">>)
        /\ tasks[t].started = <<"research", "coding">>
        /\ DictKeys(tasks[t].ret[1].results) = <<"research", "coding">>

\* C3: with calls interleaving at the research stage's suspension point, the
\* entry at position i of the store has id i, and no two returned
\* conversation_id values are equal.
C3_IdsGapFreeUnderConcurrency ==
    /\ \A i \in 1..Len(conversation_history) : conversation_history[i].id = i - 1
    /\ \A t, u \in Tasks :
          (t # u /\ Completed(t) /\ Completed(u)) =>
              tasks[t].ret[1].conversation_id # tasks[u].ret[1].conversation_id

\* C4 as stated: when the research invocation raises, documentation receives
\* a synthesized object wrapping the request text.
C4_SynthesizedAfterResearchFailure ==
    \A t \in Tasks :
        ("research" \in tasks[t].raised /\ Selected(t, "documentation") /\ Returned(t)) =>
            tasks[t].research_data = <<[research_report |-> tasks[t].request]>>

\* C4 amended: when the research invocation raises, the documentation stage
\* still runs, its outcome is stored under "documentation", and its input is the
\* failure record stored under "research".
C4_FailureRecordAfterResearchFailure ==
    \A t \in Tasks :
        ("research" \in tasks[t].raised /\ Selected(t, "documentation") /\ Returned(t)) =>
            /\ InList("documentation", tasks[t].started)
            /\ DictHas(tasks[t].results, "documentation")
            /\ tasks[t].research_data = <<DictGet(tasks[t].results, "research", <<>>)>>
            /\ IsFailureRecord(tasks[t].research_data[1])

\* research raised and documentation ran on its failure record
C4_Witness ==
    \E t \in Tasks :
        /\ Completed(t)
        /\ "research" \in tasks[t].raised
        /\ InList("documentation", tasks[t].started)
        /\ tasks[t].research_data = <<FailureRecord("KeyError: research")>>

\* C5: documentation's input is the "research" entry of results whenever
\* there is one, completed or failed; only when research was not selected is it
\* the request text wrapped as the report field.
C5_DocumentationInput ==
    \A t \in Tasks :
        InList("documentation", tasks[t].started) =>
            /\ DictHas(tasks[t].results, "research") <=> Selected(t, "research")
            /\ tasks[t].research_data =
                  IF Selected(t, "research")
                  THEN <<DictGet(tasks[t].results, "research", <<>>)>>
                  ELSE <<[research_report |-> tasks[t].request]>>

\* one run passed a failed research entry on, another wrapped the request
C5_Witness ==
    \E t, u \in Tasks :
        /\ Completed(t) /\ Completed(u)
        /\ InList("research", tasks[t].invoked)
        /\ InList("documentation", tasks[t].invoked)
        /\ "error" \in DOMAIN DictGet(tasks[t].results, "research", <<>>)
        /\ tasks[t].research_data = <<DictGet(tasks[t].results, "research", <<>>)>>
        /\ ~Selected(u, "research")
        /\ tasks[u].research_data = <<[research_report |-> ReqDebug]>>

\* C6: the coding agent is invoked only if _is_coding_request holds for the
\* request text, however "coding" came to be selected; when it does not hold,
\* results has no "coding" key.
C6_CodingGated ==
    \A t \in Tasks :
        (tasks[t].request.type = "str" /\ ~IsCodingRequest(tasks[t].request).value) =>
            /\ ~InList("coding", tasks[t].invoked)
            /\ ~DictHas(tasks[t].results, "coding")

\* "Code" was routed to coding and returned with no coding key
C6_Witness ==
    \E t \in Tasks :
        /\ Completed(t)
        /\ tasks[t].request = ReqCode
        /\ tasks[t].selected_agents = List(<<"coding">>)
        /\ InList("coding", tasks[t].started)
        /\ tasks[t].ret[1].results = <<>>

\* C7: the capability list of every stored entry is a subsequence of
\* (research, documentation, coding) with no name twice.
C7_StoredListInPriorityOrder ==
    \A i \in 1..Len(conversation_history) :
        IsSubsequence(conversation_history[i].selected_agents.value, PriorityOrder)

\* C8: with calls made one after another, the entry at position i of the
\* store has id i, and each completed call returned the id of the entry it
\* appended.
C8_SequentialIds ==
    /\ \A i \in 1..Len(conversation_history) : conversation_history[i].id = i - 1
    /\ \A t \in Tasks :
          Completed(t) =>
              /\ tasks[t].ret[1].conversation_id = Len(conversation_history) - 1
              /\ conversation_history[Len(conversation_history)].id = tasks[t].ret[1].conversation_id
              /\ conversation_history[Len(conversation_history)].request = tasks[t].ret[1].request
              /\ conversation_history[Len(conversation_history)].results = tasks[t].ret[1].results

\* the third call in a row returned id 2
C8_Witness ==
    /\ Len(conversation_history) = 3
    /\ Completed(1)
    /\ tasks[1].ret[1].conversation_id = 2

\* C9: for every limit from 0 up, get_conversation_history(limit) on a store
\* of N entries returns min(limit, N) entries, the most recent ones in store
\* order, the last of them with id N-1.
C9_HistoryWindow ==
    \A limit \in {l \in Limits : l >= 0} :
        LET n == Len(conversation_history)
            w == HistoryWindow(conversation_history, limit) IN
        /\ Len(w) = Min(limit, n)
        /\ w = SubSeq(conversation_history, n - Len(w) + 1, n)
        /\ w # <<>> => w[Len(w)].id = n - 1

\* C10: a call returns "completed" unless an error left every stage's
\* try-block; then it returns "failed" with one error string and no results,
\* and the store is as it was.
C10_WholeRunFailure ==
    [][\A t \in Tasks :
          (tasks'[t] # tasks[t] /\ tasks'[t].pc = "returned") =>
              /\ tasks'[t].ret[1].status = IF tasks'[t].exc # "" THEN "failed" ELSE "completed"
              /\ tasks'[t].exc # "" =>
                    /\ DOMAIN tasks'[t].ret[1] = {"request", "error", "status"}
                    /\ conversation_history' = conversation_history
              /\ tasks'[t].exc = "" =>
                    conversation_history' =
                        Append(conversation_history, ConversationEntry(tasks'[t]))
      ]_vars

\* a call failed as a whole on a store that already held an entry
C10_Witness ==
    \E t \in Tasks :
        /\ Failed(t)
        /\ tasks[t].request = None
        /\ Len(conversation_history) = 1

\* the model type each agent generates with (the agents' model_type fields)
ModelTypeOf(name) ==
    CASE name = "research" -> "phi3"
      [] name = "documentation" -> "mistral"
      [] name = "coding" -> "qwen"

\* C11: no public operation lets an exception out, in any orchestrator
\* state: initialize_agents returns True or False, process_user_request
\* returns a dict with a status, and the two queries return their value.
C11_NoExceptionEscapes ==
    /\ init_ret \in {"not called", "True", "False"}
    /\ \A t \in Tasks : Returned(t) => "status" \in DOMAIN tasks[t].ret[1]
    /\ history_ret # <<>> => "exception" \notin DOMAIN history_ret[1]

\* C12: initialize_agents calls load_model for every candidate, in order,
\* whatever the earlier candidates did; it returns False exactly when none
\* loaded, and when one loaded the registry holds the three capabilities.
C12_EveryCandidateTried ==
    init_ret # "not called" =>
        /\ [i \in 1..Len(load_log) |-> load_log[i].model_type] = models_to_load
        /\ init_ret = "False" <=> (\A i \in 1..Len(load_log) : ~load_log[i].success)
        /\ (\E i \in 1..Len(load_log) : load_log[i].success) =>
              /\ init_ret = "True"
              /\ agents = {"research", "documentation", "coding"}
        /\ \A i \in 1..Len(load_log) :
              load_log[i].success => load_log[i].model_type \in pipelines

\* the first two candidates failed, the third loaded, and the call succeeded
C12_Witness ==
    /\ init_ret = "True"
    /\ Len(load_log) = 3
    /\ ~load_log[1].success /\ ~load_log[2].success /\ load_log[3].success
    /\ pipelines = {"qwen"}
    /\ agents = {"research", "documentation", "coding"}

\* C13: the store only grows at its end, by one entry for each call that
\* returns "completed" and by nothing else; the two queries leave it as it is,
\* and conversation_count is its length.
C13_AppendOnly ==
    [][/\ Len(conversation_history') >= Len(conversation_history)
       /\ SubSeq(conversation_history', 1, Len(conversation_history)) = conversation_history
       /\ (status_ret' # status_ret \/ history_ret' # history_ret) =>
              conversation_history' = conversation_history
       /\ Len(conversation_history') = Len(conversation_history) +
              (IF \E t \in Tasks : /\ tasks'[t] # tasks[t]
                                   /\ tasks'[t].pc = "returned"
                                   /\ tasks'[t].ret[1].status = "completed"
               THEN 1 ELSE 0)
       /\ status_ret' # status_ret =>
              status_ret'[1].conversation_count = Len(conversation_history)
      ]_vars

\* of two calls one failed as a whole, and the status counts one conversation
C13_Witness ==
    /\ calls = 2
    /\ Failed(1)
    /\ Len(conversation_history) = 1
    /\ status_ret # <<>>
    /\ status_ret[1].conversation_count = 1
    /\ history_ret # <<>>

\* C14 as stated: for the sorting-algorithm request without an explicit list
\* the recorded list is ["coding"] and results has the one key "coding".
C14_SortingRequestRunsCodingOnly ==
    \A t \in Tasks :
        (Completed(t) /\ tasks[t].request = ReqSorting /\ tasks[t].given = None) =>
            /\ tasks[t].selected_agents = List(<<"coding">>)
            /\ DictKeys(tasks[t].results) = <<"coding">>

\* C14 amended: for the sorting-algorithm request without an explicit list
\* the Router also matches the documentation keyword "write": the recorded
\* list is ["documentation", "coding"] and results has these two keys, in
\* this order.
C14_SortingRequestRunsDocumentationAndCoding ==
    \A t \in Tasks :
        (Completed(t) /\ tasks[t].request = ReqSorting /\ tasks[t].given = None) =>
            /\ tasks[t].selected_agents = List(<<"documentation", "coding">>)
            /\ DictKeys(tasks[t].results) = <<"documentation", "coding">>
            /\ tasks[t].ret[1].results = tasks[t].results

\* the sorting-algorithm request completed on an initialized orchestrator
C14_Witness ==
    /\ Completed(1)
    /\ tasks[1].request = ReqSorting
    /\ tasks[1].given = None
    /\ tasks[1].invoked = <<"documentation", "coding">>
    /\ tasks[1].raised = {}

\* the keyword set of a capability
KeywordsOf(name) ==
    CASE name = "research" -> research_keywords
      [] name = "documentation" -> doc_keywords
      [] name = "coding" -> code_keywords

\* at least one keyword of the capability's set occurs in the lower-cased text
Matches(name, request) == AnyKeyword(KeywordsOf(name), Lower(request.value))
MatchesNone(request) == \A name \in {"research", "documentation", "coding"} : ~Matches(name, request)

\* the calls that left the choice of capabilities to the Router, on a text
Routed(t) ==
    /\ tasks[t].pc # "idle"
    /\ tasks[t].request.type = "str"
    /\ tasks[t].given = None \/ tasks[t].given = List(<<>>)

NoDuplicates(l) == \A i, j \in 1..Len(l) : l[i] = l[j] => i = j

\* C15 as stated: the Router's list is non-empty, a duplicate-free
\* subsequence of (research, documentation, coding), and holds a capability
\* exactly when a keyword of its set occurs in the lower-cased text.
C15_MemberIffKeyword ==
    \A t \in Tasks : Routed(t) =>
        LET needed == tasks[t].selected_agents.value IN
        /\ needed # <<>>
        /\ IsSubsequence(needed, PriorityOrder)
        /\ NoDuplicates(needed)
        /\ \A name \in {"research", "documentation", "coding"} :
              Selected(t, name) <=> Matches(name, tasks[t].request)

\* C15 amended: the Router's list is non-empty, a duplicate-free subsequence
\* of (research, documentation, coding); when a keyword of some set occurs in
\* the lower-cased text it holds a capability exactly when a keyword of that
\* capability's set occurs, and when none occurs it is ["research"].
C15_MemberIffKeywordOrDefault ==
    \A t \in Tasks : Routed(t) =>
        LET needed == tasks[t].selected_agents.value IN
        /\ needed # <<>>
        /\ IsSubsequence(needed, PriorityOrder)
        /\ NoDuplicates(needed)
        /\ \A name \in {"research", "documentation", "coding"} :
              Selected(t, name) <=>
                  \/ Matches(name, tasks[t].request)
                  \/ name = "research" /\ MatchesNone(tasks[t].request)

\* "documentation Search": two keywords of the documentation set, then a
\* capitalised research keyword, routed to research before documentation
C15_Witness ==
    /\ Completed(1)
    /\ tasks[1].given = None
    /\ tasks[1].request =
          Str(<<"d","o","c","u","m","e","n","t","a","t","i","o","n"," ","S","e","a","r","c","h">>)
    /\ tasks[1].selected_agents = List(<<"research", "documentation">>)

\* C16: a text that matches no keyword of the three sets is routed to
\* exactly ["research"].
C16_DefaultIsResearch ==
    \A t \in Tasks :
        (Routed(t) /\ MatchesNone(tasks[t].request)) =>
            tasks[t].selected_agents = List(<<"research">>)

\* "hi hi" matched nothing and ran research alone
C16_Witness ==
    /\ Completed(1)
    /\ tasks[1].given = List(<<>>)
    /\ tasks[1].request = Str(<<"h","i"," ","h","i">>)
    /\ tasks[1].selected_agents = List(<<"research">>)
    /\ DictKeys(tasks[1].results) = <<"research">>

\* C17: the outcome recorded for an agent that was invoked while its model
\* type was not loaded is a failure record.
C17_UnloadedModelFails ==
    \A t \in Tasks : \A k \in 1..Len(tasks[t].results) :
        LET key == tasks[t].results[k][1]
            outcome == tasks[t].results[k][2] IN
        (InList(key, tasks[t].invoked) /\ ModelTypeOf(key) \notin pipelines) =>
            IsFailureRecord(outcome)

\* C18: two stored runs of the same request text, neither with an explicit
\* list, have increasing ids, the same recorded list and the same result keys.
C18_RepeatedRequest ==
    \A i, j \in 1..Len(conversation_history) :
        (i < j /\ conversation_history[i].request = conversation_history[j].request) =>
            /\ conversation_history[i].id < conversation_history[j].id
            /\ conversation_history[i].selected_agents = conversation_history[j].selected_agents
            /\ DictKeys(conversation_history[i].results) = DictKeys(conversation_history[j].results)

\* the sorting-algorithm request ran twice, the second time with different
\* outcomes of its agents
C18_Witness ==
    /\ Len(conversation_history) = 2
    /\ conversation_history[1].request = ReqSorting
    /\ conversation_history[2].request = ReqSorting
    /\ conversation_history[1].id = 0
    /\ conversation_history[2].id = 1
    /\ conversation_history[1].results # conversation_history[2].results

\* C19: with an empty explicit list, as with none, the recorded list is the
\* Router's, so it is not empty and a stage is considered; a non-empty
\* explicit list is recorded as given.
C19_EmptyListAsOmitted ==
    \A t \in Tasks : (tasks[t].pc # "idle" /\ tasks[t].request.type = "str") =>
        IF tasks[t].given = None \/ tasks[t].given = List(<<>>)
        THEN /\ tasks[t].selected_agents = DetermineAgentsNeeded(tasks[t].request).value
             /\ tasks[t].selected_agents.value # <<>>
             /\ tasks[t].started # <<>>
        ELSE tasks[t].selected_agents = tasks[t].given

\* an empty explicit list, and the Router's three capabilities ran
C19_Witness ==
    /\ Completed(1)
    /\ tasks[1].given = List(<<>>)
    /\ tasks[1].request = ReqAll
    /\ tasks[1].selected_agents = List(<<"research", "documentation", "coding">>)
    /\ tasks[1].started = <<"research", "documentation", "coding">>

\* C20: on an empty registry a call with a request text returns "completed",
\* every selected research or documentation stage, and the coding stage when
\* its predicate holds, has left a failure record under its key, and the
\* run's entry is in the store.
C20_EmptyRegistryCompletes ==
    agents = {} =>
        \A t \in Tasks : (Returned(t) /\ tasks[t].request.type = "str") =>
            /\ Completed(t)
            /\ \A name \in {"research", "documentation", "coding"} :
                  (/\ Selected(t, name)
                   /\ (name = "coding" => IsCodingRequest(tasks[t].request).value)) =>
                      /\ DictHas(tasks[t].results, name)
                      /\ IsFailureRecord(DictGet(tasks[t].results, name, <<>>))
            /\ \E i \in 1..Len(conversation_history) :
                  /\ conversation_history[i].request = tasks[t].request
                  /\ conversation_history[i].selected_agents = tasks[t].selected_agents
                  /\ conversation_history[i].results = tasks[t].results

\* initialize_agents failed, then a run of all three stages completed with
\* three failure records
C20_Witness ==
    /\ agents = {}
    /\ init_ret = "False"
    /\ Completed(1)
    /\ tasks[1].raised = {"research", "documentation", "coding"}
    /\ Len(tasks[1].results) = 3
    /\ conversation_history # <<>>

====
